---- MODULE Spec2Model ----
(***************************************************************************)
(* A model of extractos.py: the last-business-day computation, the         *)
(* statement normaliser (estandarizar) and the run of the script (module   *)
(* start-up, token request, account loop, no-activity log).                *)
(***************************************************************************)
EXTENDS Integers, Sequences, FiniteSets, TLC

(***************************************************************************)
(* Bounds of the model.                                                    *)
(***************************************************************************)
\* first calendar day enumerated, as a proleptic ordinal (2024-06-03)
FirstDay == 739040
\* number of calendar days enumerated after FirstDay
MaxDays == 60
\* largest number of fields of one raw record
MaxCols == 2
\* largest number of raw records of one statement list
MaxRecs == 2
\* largest number of rows of the account list
MaxAccounts == 2

Range(s) == {s[i] : i \in 1..Len(s)}

(***************************************************************************)
(* Calendar dates are proleptic Gregorian ordinals (date.toordinal()).     *)
(* weekday is date.weekday(): Monday = 0 ... Sunday = 6; ordinal 1 is a    *)
(* Monday.                                                                 *)
(***************************************************************************)
weekday(d) == (d + 6) % 7

(***************************************************************************)
(* other + BDay(n), as pandas' BusinessDay offset computes it: whole weeks *)
(* first, then the remaining days with the weekend skipped.                *)
(***************************************************************************)
BDayAdd(other, n0) ==
    LET wday  == weekday(other)
        weeks == n0 \div 5
        n1    == IF n0 <= 0 /\ wday > 4 THEN n0 + 1 ELSE n0
        n     == n1 - 5 * weeks
        days  == IF n = 0 /\ wday > 4 THEN 4 - wday
                 ELSE IF wday > 4 THEN (7 - wday) + (n - 1)
                 ELSE IF wday + n <= 4 THEN n
                 ELSE n + 2
    IN  other + 7 * weeks + days

\* a faulty ultimo_dia_habil: one calendar day back instead of one business day
ultimo_dia_habil_calendario(hoy) == hoy - 1

\* (pd.Timestamp(hoy) - BDay(1)).date()
ultimo_dia_habil(hoy) == BDayAdd(hoy, 0 - 1)

(***************************************************************************)
(* Cell values.  A value is a pair <<tag, payload>>: a JSON string, a      *)
(* Timestamp (an ordinal), NaN (a missing cell) or NaT (a missing date).   *)
(***************************************************************************)
Str(s) == <<"str", s>>
Ts(n)  == <<"ts", n>>
NaN    == <<"nan", 0>>
NaT    == <<"nat", 0>>

\* the date strings the provider sends, and the other texts
DateStrings == {"2024-06-07", "2024-06-10"}
Texts       == {"Pago"}

\* the ordinal an ISO date string parses to
ParseDate(s) ==
    CASE s = "2024-06-07" -> 739044
      [] s = "2024-06-10" -> 739047

\* pd.to_datetime on one cell: a string is parsed, a Timestamp is kept, a
\* missing value becomes NaT
to_datetime(v) ==
    CASE v[1] = "str" -> Ts(ParseDate(v[2]))
      [] v[1] = "ts"  -> v
      [] OTHER        -> NaT

(***************************************************************************)
(* Field names.  A raw record is a sequence of <<name, value>> pairs with  *)
(* distinct names (a JSON object keeps the order of its keys); a nested    *)
(* object is written with its flattened, dotted names.                     *)
(***************************************************************************)
FieldNames == {"valueDate", "processDate", "description", "bankId", "Fecha"}

\* "date" in c.lower()
IsDateName(c) == c \in {"valueDate", "processDate"}

\* the values a field of the given name carries
ValuesOf(name) ==
    IF IsDateName(name) \/ name = "Fecha"
    THEN {Str(s) : s \in DateStrings}
    ELSE {Str(s) : s \in Texts}

HasKey(rec, k) == \E i \in 1..Len(rec) : rec[i][1] = k
GetKey(rec, k) ==
    IF HasKey(rec, k)
    THEN rec[CHOOSE i \in 1..Len(rec) : rec[i][1] = k][2]
    ELSE NaN

(***************************************************************************)
(* A DataFrame: its column names in order (names may repeat after a        *)
(* rename) and its rows, one cell per column.  ok = FALSE stands for the   *)
(* call having raised.                                                     *)
(***************************************************************************)
Frame(cols, rows) == [ok |-> TRUE, cols |-> cols, rows |-> rows]
EmptyFrame == Frame(<<>>, <<>>)
Raised     == [ok |-> FALSE, cols |-> <<>>, rows |-> <<>>]

\* DataFrame.empty: an axis of length 0
IsEmpty(df) == df.cols = <<>> \/ df.rows = <<>>

RECURSIVE AppendNew(_, _)
\* cols followed by the names of keys not yet in it, in the order of keys
AppendNew(cols, keys) ==
    IF keys = <<>> THEN cols
    ELSE AppendNew(IF Head(keys) \in Range(cols) THEN cols
                   ELSE Append(cols, Head(keys)),
                   Tail(keys))

RECURSIVE FirstSeen(_, _)
\* the union of the records' keys in the order of their first appearance
FirstSeen(cols, movs) ==
    IF movs = <<>> THEN cols
    ELSE FirstSeen(AppendNew(cols, [i \in 1..Len(Head(movs)) |-> Head(movs)[i][1]]),
                   Tail(movs))

\* pd.json_normalize(movs): one column per field, one row per record, NaN
\* where a record lacks the field
json_normalize(movs) ==
    LET cols == FirstSeen(<<>>, movs)
    IN  Frame(cols,
              [r \in 1..Len(movs) |->
                  [c \in 1..Len(cols) |-> GetKey(movs[r], cols[c])]])

\* df.rename(columns={old: new})
RenameCol(df, old, new) ==
    [df EXCEPT !.cols = [c \in 1..Len(df.cols) |->
                            IF df.cols[c] = old THEN new ELSE df.cols[c]]]

\* the canonical name of a provider field
mapping(k) ==
    CASE k = "description"  -> "Concepto"
      [] k = "debitAmount"  -> "Debito"
      [] k = "creditAmount" -> "Credito"
      [] k = "balance"      -> "Saldo"
      [] k = "bankId"       -> "Banco"
      [] OTHER              -> k

\* the two renames of estandarizar: the first date column to Fecha, then the
\* known provider fields to their canonical names
Renombrar(df) ==
    LET date_cols == SelectSeq(df.cols, IsDateName)
        df1 == IF date_cols # <<>> THEN RenameCol(df, date_cols[1], "Fecha") ELSE df
    IN  [df1 EXCEPT !.cols = [c \in 1..Len(df1.cols) |-> mapping(df1.cols[c])]]

\* the positions of the columns called name
ColsNamed(df, name) == {c \in 1..Len(df.cols) : df.cols[c] = name}

\* the order of sort_values on Fecha: ascending, NaT last
FechaLess(a, b) == a[1] = "ts" /\ (b[1] = "nat" \/ (b[1] = "ts" /\ a[2] < b[2]))

RECURSIVE InsertRow(_, _, _)
\* row put into the sorted rows s after every row that is not greater
InsertRow(s, row, k) ==
    IF s = <<>> THEN <<row>>
    ELSE IF FechaLess(row[k], Head(s)[k]) THEN <<row>> \o s
    ELSE <<Head(s)>> \o InsertRow(Tail(s), row, k)

RECURSIVE SortRows(_, _, _)
\* rows sorted on column k, equal keys in their input order (the order numpy's
\* default sort gives the short lists of the bounds)
SortRows(done, rows, k) ==
    IF rows = <<>> THEN done
    ELSE SortRows(InsertRow(done, Head(rows), k), Tail(rows), k)

\* a faulty FechaStep: the Fecha column is parsed, the rows are left in
\* their input order
FechaStep_sin_orden(df) ==
    IF ColsNamed(df, "Fecha") = {} THEN df
    ELSE IF Cardinality(ColsNamed(df, "Fecha")) > 1 THEN Raised
    ELSE LET k == CHOOSE c \in ColsNamed(df, "Fecha") : TRUE
         IN  [df EXCEPT !.rows = [r \in 1..Len(df.rows) |->
                           [df.rows[r] EXCEPT ![k] = to_datetime(df.rows[r][k])]]]

\* df["Fecha"] = pd.to_datetime(df["Fecha"]); df = df.sort_values("Fecha").
\* With two columns called Fecha df["Fecha"] is a DataFrame and to_datetime
\* raises.
FechaStep(df) ==
    IF ColsNamed(df, "Fecha") = {} THEN df
    ELSE IF Cardinality(ColsNamed(df, "Fecha")) > 1 THEN Raised
    ELSE LET k == CHOOSE c \in ColsNamed(df, "Fecha") : TRUE
             parsed == [r \in 1..Len(df.rows) |->
                           [df.rows[r] EXCEPT ![k] = to_datetime(df.rows[r][k])]]
         IN  [df EXCEPT !.rows = SortRows(<<>>, parsed, k)]

KeyNames == <<"Fecha", "Concepto", "Debito", "Credito", "Saldo">>

\* key_cols = [c for c in [...] if c in df.columns]
InCols(df, c) == c \in Range(df.cols)
key_cols(df) == SelectSeq(KeyNames, LAMBDA c : InCols(df, c))

\* the cells of a row in the columns whose name is a key
KeyOf(df, row) ==
    [c \in {c \in 1..Len(df.cols) : df.cols[c] \in Range(key_cols(df))} |-> row[c]]

\* a faulty drop_duplicates: nothing is dropped
drop_duplicates_nada(df) == df

\* df.drop_duplicates(subset=key_cols).reset_index(drop=True): an empty frame
\* (no row or no column) is returned as it is; with no key column in a
\* non-empty frame pandas raises ValueError (nothing to unpack); else the
\* first row of each key is kept, missing values equal to one another
drop_duplicates(df) ==
    IF ~df.ok THEN Raised
    ELSE IF IsEmpty(df) THEN df
    ELSE IF key_cols(df) = <<>> THEN Raised
    ELSE LET keep(r) == \A q \in 1..(r - 1) : KeyOf(df, df.rows[q]) # KeyOf(df, df.rows[r])
             RECURSIVE Kept(_)
             Kept(r) == IF r > Len(df.rows) THEN <<>>
                        ELSE (IF keep(r) THEN <<df.rows[r]>> ELSE <<>>) \o Kept(r + 1)
         IN  [df EXCEPT !.rows = Kept(1)]

\* estandarizar(movs): the frame returned, or Raised
estandarizar(movs) ==
    IF movs = <<>> THEN EmptyFrame
    ELSE LET df3 == FechaStep(Renombrar(json_normalize(movs)))
         IN  IF df3.ok THEN drop_duplicates(df3) ELSE Raised

(***************************************************************************)
(* The raw statement lists enumerated: the records of one list draw their  *)
(* fields, in order, from one sequence of at most MaxCols distinct names,  *)
(* each record carrying or lacking each field.                             *)
(***************************************************************************)
Absent == <<"absent", 0>>

Schemas ==
    UNION {{s \in [1..n -> FieldNames] :
               \A i, j \in 1..n : i # j => s[i] # s[j]} : n \in 0..MaxCols}

CellChoices(s) ==
    {f \in [1..Len(s) -> {Str(x) : x \in DateStrings \cup Texts} \cup {Absent}] :
        \A i \in 1..Len(s) : f[i] \in ValuesOf(s[i]) \cup {Absent}}

IsPresent(p) == p[2] # Absent
MkRecord(s, f) == SelectSeq([i \in 1..Len(s) |-> <<s[i], f[i]>>], IsPresent)

RecordsOf(s) == {MkRecord(s, f) : f \in CellChoices(s)}

RawLists ==
    UNION {UNION {[1..m -> RecordsOf(s)] : m \in 0..MaxRecs} : s \in Schemas}

\* df.to_dict("records"): each row as a record again, a repeated column name
\* keeping its first position and its last value
to_records(df) ==
    LET names == AppendNew(<<>>, df.cols)
        last(name) == CHOOSE c \in ColsNamed(df, name) :
                          \A q \in ColsNamed(df, name) : q <= c
    IN  [r \in 1..Len(df.rows) |->
            [n \in 1..Len(names) |-> <<names[n], df.rows[r][last(names[n])]>>]]

(***************************************************************************)
(* The run of the script.                                                  *)
(***************************************************************************)
\* the rows bancos.xlsx may hold: two accounts of one bank and one of another
Accounts ==
    { [bank_number |-> "7",  account_number |-> "100", Entidad |-> "Galicia"],
      [bank_number |-> "7",  account_number |-> "200", Entidad |-> "Galicia"],
      [bank_number |-> "11", account_number |-> "300", Entidad |-> "Nacion"] }

\* the states of an environment variable
EnvValues == {"unset", "empty", "set"}

\* a faulty Falta: only an unset variable counts as missing
Falta_solo_none(v) == v = "unset"

\* not v, for the value of os.getenv: None and "" are missing
Falta(v) == v \in {"unset", "empty"}

\* the HTTP statuses a final response may carry
StatusCodes == {200, 300, 404, 500}

\* resp.raise_for_status() raises HTTPError for a 4xx or 5xx status
raise_for_status(status) == 400 <= status /\ status < 600

\* the statement lists a response may carry: none, one movement, one record
\* with no field, one record with no key field
MainLists ==
    { <<>>,
      << << <<"valueDate", Str("2024-06-07")>>, <<"description", Str("Pago")>> >> >>,
      << <<>> >>,
      << << <<"bankId", Str("Pago")>> >> >> }

TokenResponses ==
    [status : StatusCodes, body : {"access_token", "sin_access_token", "not_json"}]

StmtResponses ==
    [status : StatusCodes, body : {"dict", "dict_sin_statements", "list", "not_json"},
     statements : MainLists]

\* data.get("statements", []) if isinstance(data, dict) else data
statements_of(resp) ==
    IF resp.body = "dict_sin_statements" THEN <<>> ELSE resp.statements

\* one step of the run that the claims speak of: a file read, a directory
\* made, a request sent (with the status of its response), a spreadsheet
\* written, an entity recorded in sin_mov, the log written
Event(kind, k, status, res) == [kind |-> kind, k |-> k, status |-> status, res |-> res]

VARIABLES
    \* the business-day computation: its input, its result, its position
    hoy, habil, bphase,
    \* the normaliser: the raw list, the frame after the renames, the frames
    \* returned by the first and by the second application, its position
    movs, renamed, df, df2, nphase,
    \* the run: its position, the three required settings, whether a .env
    \* file exists, the account list and whether it has an Entidad column
    pc, CLIENT_ID, CLIENT_SECRET, CUSTOMER_ID, dotenv, bancos, hasEntidad,
    \* the date of the run, the loop index, the list fetched for the current
    \* account, sin_mov, the spreadsheets on disk, the lines of the log file
    \* (with whether it was written), the exit status, the steps so far
    fecha, idx, cur, sin_mov, files, log_written, log_lines, exit_status, events

bvars == <<hoy, habil, bphase>>
nvars == <<movs, renamed, df, df2, nphase>>
input == <<CLIENT_ID, CLIENT_SECRET, CUSTOMER_ID, dotenv, bancos, hasEntidad>>
mvars == <<pc, input, fecha, idx, cur, sin_mov, files, log_written, log_lines,
           exit_status, events>>
vars  == <<bvars, nvars, mvars>>

BIdle == hoy = FirstDay /\ habil = 0 /\ bphase = "idle"
NIdle == /\ movs = <<>> /\ renamed = EmptyFrame /\ df = EmptyFrame
         /\ df2 = EmptyFrame /\ nphase = "idle"
MIdle == /\ pc = "idle" /\ CLIENT_ID = "set" /\ CLIENT_SECRET = "set"
         /\ CUSTOMER_ID = "set" /\ dotenv = FALSE /\ bancos = <<>>
         /\ hasEntidad = FALSE /\ fecha = 0 /\ idx = 0 /\ cur = <<>>
         /\ sin_mov = <<>> /\ files = {} /\ log_written = FALSE
         /\ log_lines = <<>> /\ exit_status = "none" /\ events = <<>>

(***************************************************************************)
(* The business-day computation on every day of the range.                 *)
(***************************************************************************)
BInit == /\ hoy \in FirstDay..(FirstDay + MaxDays)
         /\ habil = 0
         /\ bphase = "input"
         /\ NIdle /\ MIdle

Calcular == /\ bphase = "input"
            /\ habil' = ultimo_dia_habil(hoy)
            /\ bphase' = "done"
            /\ UNCHANGED <<hoy, nvars, mvars>>

SpecBDay == BInit /\ [][Calcular]_vars

(***************************************************************************)
(* The normaliser on every raw list of the bounds, applied once and then   *)
(* again to its own output.                                                *)
(***************************************************************************)
NInit == /\ movs \in RawLists
         /\ renamed = EmptyFrame /\ df = EmptyFrame /\ df2 = EmptyFrame
         /\ nphase = "input"
         /\ BIdle /\ MIdle

Normalizar ==
    /\ nphase = "input"
    /\ renamed' = IF movs = <<>> THEN EmptyFrame ELSE Renombrar(json_normalize(movs))
    /\ df' = estandarizar(movs)
    /\ nphase' = "normalized"
    /\ UNCHANGED <<movs, df2, bvars, mvars>>

Renormalizar ==
    /\ nphase = "normalized"
    /\ df.ok
    /\ df2' = estandarizar(to_records(df))
    /\ nphase' = "renormalized"
    /\ UNCHANGED <<movs, renamed, df, bvars, mvars>>

NNext == Normalizar \/ Renormalizar

SpecNorm == NInit /\ [][NNext]_vars

(***************************************************************************)
(* The run: module start-up (load_dotenv, the check of the settings), then *)
(* main: the account list, the date, the two directories, the token, the   *)
(* loop over the accounts and the log of the accounts without movements.   *)
(***************************************************************************)
Init == /\ pc = "start"
        /\ CLIENT_ID \in EnvValues /\ CLIENT_SECRET \in EnvValues
        /\ CUSTOMER_ID \in EnvValues
        /\ dotenv \in BOOLEAN
        /\ hasEntidad \in BOOLEAN
        /\ bancos \in UNION {[1..n -> Accounts] : n \in 0..MaxAccounts}
        /\ fecha = 0 /\ idx = 0 /\ cur = <<>> /\ sin_mov = <<>> /\ files = {}
        /\ log_written = FALSE /\ log_lines = <<>> /\ exit_status = "none"
        /\ events = <<>>
        /\ hoy \in {FirstDay, FirstDay + 2} /\ habil = 0 /\ bphase = "idle"
        /\ NIdle

\* load_dotenv(): the .env file, when there is one, is read
LoadEnv ==
    /\ pc = "start"
    /\ events' = IF dotenv THEN Append(events, Event("read", 0, 0, ".env")) ELSE events
    /\ pc' = "check"
    /\ UNCHANGED <<input, fecha, idx, cur, sin_mov, files, log_written, log_lines,
                   exit_status, bvars, nvars>>

\* if not CLIENT_ID or not CLIENT_SECRET or not CUSTOMER_ID: sys.exit(1)
CheckConfig ==
    /\ pc = "check"
    /\ IF Falta(CLIENT_ID) \/ Falta(CLIENT_SECRET) \/ Falta(CUSTOMER_ID)
       THEN pc' = "exit" /\ exit_status' = "1"
       ELSE pc' = "main" /\ UNCHANGED exit_status
    /\ UNCHANGED <<input, fecha, idx, cur, sin_mov, files, log_written, log_lines,
                   events, bvars, nvars>>

\* main, up to the token: bancos.xlsx is read, the date is the last business
\* day before today, the two directories are made
Preparar ==
    /\ pc = "main"
    /\ fecha' = ultimo_dia_habil(hoy)
    /\ events' = events \o << Event("read", 0, 0, "bancos.xlsx"),
                              Event("mkdir", 0, 0, "Movimientos"),
                              Event("mkdir", 0, 0, "Sin movimientos") >>
    /\ pc' = "token"
    /\ UNCHANGED <<input, idx, cur, sin_mov, files, log_written, log_lines,
                   exit_status, bvars, nvars>>

\* a faulty tras_cuenta: the loop is left at once
tras_cuenta_fin(k) == "log"

\* for _, b in bancos.iterrows(): after account k the next account, or, the
\* list exhausted, the log
tras_cuenta(k) == IF k < Len(bancos) THEN "fetch" ELSE "log"

\* token = obtener_token(); sin_mov = []
ObtenerToken ==
    /\ pc = "token"
    /\ \E resp \in TokenResponses :
          /\ events' = Append(events, Event("post", 0, resp.status, "token"))
          /\ IF raise_for_status(resp.status) \/ resp.body # "access_token"
             THEN pc' = "raised" /\ exit_status' = "1" /\ UNCHANGED <<idx, sin_mov>>
             ELSE /\ pc' = tras_cuenta(0)
                  /\ idx' = 1
                  /\ sin_mov' = <<>>
                  /\ UNCHANGED exit_status
    /\ UNCHANGED <<input, fecha, cur, files, log_written, log_lines, bvars, nvars>>

\* movs = descargar_extractos(token, ...): one GET for account idx (its
\* number in the URL, its bank number padded to three digits), then the
\* status check and the statements of the JSON body
Descargar ==
    /\ pc = "fetch"
    /\ \E resp \in StmtResponses :
          IF raise_for_status(resp.status) \/ resp.body = "not_json"
          THEN /\ events' = Append(events, Event("get", idx, resp.status, "error"))
               /\ pc' = "raised" /\ exit_status' = "1"
               /\ UNCHANGED cur
          ELSE /\ events' = Append(events,
                       Event("get", idx, resp.status,
                             IF statements_of(resp) = <<>> THEN "vacio" ELSE "datos"))
               /\ cur' = statements_of(resp)
               /\ pc' = "process"
               /\ UNCHANGED exit_status
    /\ UNCHANGED <<input, fecha, idx, sin_mov, files, log_written, log_lines,
                   bvars, nvars>>

\* a faulty entidad: the bank number, whatever the account list holds
entidad_banco(b) == b.bank_number

\* entidad = b.get("Entidad", b.bank_number)
entidad(b) == IF hasEntidad THEN b.Entidad ELSE b.bank_number

\* df = estandarizar(movs); then the entity is recorded in sin_mov, or the
\* spreadsheet named after the entity is written (over one of that name)
Procesar ==
    /\ pc = "process"
    /\ LET d == estandarizar(cur)
           e == entidad(bancos[idx])
       IN  IF ~d.ok
           THEN /\ pc' = "raised" /\ exit_status' = "1"
                /\ UNCHANGED <<idx, sin_mov, files, events>>
           ELSE /\ IF IsEmpty(d)
                   THEN /\ sin_mov' = Append(sin_mov, e)
                        /\ events' = Append(events, Event("sin_mov", idx, 0, e))
                        /\ UNCHANGED files
                   ELSE /\ files' = {f \in files : f.name # e}
                                    \cup {[name |-> e, cuenta |-> idx, filas |-> d.rows]}
                        /\ events' = Append(events, Event("xlsx", idx, 0, e))
                        /\ UNCHANGED sin_mov
                /\ pc' = tras_cuenta(idx)
                /\ idx' = idx + 1
                /\ UNCHANGED exit_status
    /\ UNCHANGED <<input, fecha, cur, log_written, log_lines, bvars, nvars>>

\* the log of the entities without movements is written
EscribirLog ==
    /\ pc = "log"
    /\ log_written' = TRUE
    /\ log_lines' = sin_mov
    /\ events' = Append(events, Event("log", 0, 0, "log.txt"))
    /\ pc' = "done"
    /\ exit_status' = "0"
    /\ UNCHANGED <<input, fecha, idx, cur, sin_mov, files, bvars, nvars>>

Next == \/ LoadEnv \/ CheckConfig \/ Preparar \/ ObtenerToken
        \/ Descargar \/ Procesar \/ EscribirLog

Spec == Init /\ [][Next]_vars

(***************************************************************************)
(* Properties of the business-day computation (under SpecBDay).            *)
(***************************************************************************)
\* the day of the week counted from a known Monday, 2024-06-03
DiaSemana(d) == (d + 7000 - 739040) % 7

\* C1: for every date hoy, ultimo_dia_habil(hoy) is the latest Monday-to-Friday
\* date strictly before hoy: the preceding Friday for a Monday, a Saturday or a
\* Sunday, the previous calendar day for a Tuesday to Friday; it is never a
\* Saturday or Sunday and never hoy.
C1_UltimoDiaHabil ==
    bphase = "done" =>
        /\ habil < hoy
        /\ DiaSemana(habil) \in 0..4
        /\ \A e \in (hoy - 7)..(hoy - 1) : DiaSemana(e) \in 0..4 => e <= habil
        /\ DiaSemana(hoy) = 0 => (habil = hoy - 3 /\ DiaSemana(habil) = 4)
        /\ DiaSemana(hoy) \in 1..4 => habil = hoy - 1
        /\ DiaSemana(hoy) = 5 => (habil = hoy - 1 /\ DiaSemana(habil) = 4)
        /\ DiaSemana(hoy) = 6 => (habil = hoy - 2 /\ DiaSemana(habil) = 4)

\* a Monday whose last business day, the Friday before, has been computed
C1_Witness == bphase = "done" /\ DiaSemana(hoy) = 0 /\ habil = hoy - 3

(***************************************************************************)
(* Properties of the normaliser (under SpecNorm).                          *)
(***************************************************************************)
Normalizado == nphase \in {"normalized", "renormalized"}

Claves == {"Fecha", "Concepto", "Debito", "Credito", "Saldo"}
ColsClave(f) == {c \in 1..Len(f.cols) : f.cols[c] \in Claves}

\* no two rows of f agree on every key column of f
DistintasEnClave(f) ==
    \A i, j \in 1..Len(f.rows) :
        i < j => \E c \in ColsClave(f) : f.rows[i][c] # f.rows[j][c]

\* every row of the frame before the deduplication has exactly one row of df
\* with its key values
UnaFilaPorClave ==
    LET P == FechaStep(renamed)
    IN  \A r \in 1..Len(P.rows) :
            Cardinality({i \in 1..Len(df.rows) :
                \A c \in ColsClave(df) : df.rows[i][c] = P.rows[r][c]}) = 1

\* C2 as stated: for every raw record list, the rows returned by estandarizar
\* are pairwise distinct on the combination of the key columns that are present.
C2_Original == (Normalizado /\ df.ok) => DistintasEnClave(df)

\* C2 as amended: when the frame returned by estandarizar has at least one of
\* Fecha, Concepto, Debito, Credito, Saldo as a column, its rows are pairwise
\* distinct on the combination of those present, and raw records with the
\* same key values yield exactly one row.
C2_SinDuplicados ==
    (Normalizado /\ df.ok /\ ColsClave(df) # {}) =>
        DistintasEnClave(df) /\ UnaFilaPorClave

\* two different raw records with the same key values gave one row
C2_Witness ==
    /\ Normalizado /\ df.ok /\ ColsClave(df) # {}
    /\ Len(movs) = 2 /\ movs[1] # movs[2] /\ Len(df.rows) = 1

\* C9: when the frame has a date column, the rows returned by estandarizar
\* (after the deduplication) are non-decreasing by Fecha, the rows without a
\* date last.
C9_OrdenPorFecha ==
    (Normalizado /\ df.ok) =>
        \A c \in 1..Len(df.cols) : df.cols[c] = "Fecha" =>
            \A i, j \in 1..Len(df.rows) : i < j =>
                /\ df.rows[i][c][1] \in {"ts", "nat"}
                /\ df.rows[j][c][1] \in {"ts", "nat"}
                /\ (df.rows[i][c][1] = "ts" /\ df.rows[j][c][1] = "ts")
                       => df.rows[i][c][2] <= df.rows[j][c][2]
                /\ df.rows[i][c][1] = "nat" => df.rows[j][c][1] = "nat"

\* two raw records given with the later date first came out in date order
C9_Witness ==
    /\ Normalizado /\ df.ok /\ Len(movs) = 2 /\ Len(df.rows) = 2
    /\ GetKey(movs[1], "valueDate") = Str("2024-06-10")
    /\ GetKey(movs[2], "valueDate") = Str("2024-06-07")
    /\ \E c \in 1..Len(df.cols) :
          /\ df.cols[c] = "Fecha"
          /\ df.rows[1][c] = Ts(739044) /\ df.rows[2][c] = Ts(739047)

\* the name the claim gives column c of the flattened frame f
NombreEsperado(f, c) ==
    LET n == f.cols[c]
        primera == \A q \in 1..(c - 1) : ~IsDateName(f.cols[q])
    IN  IF IsDateName(n) /\ primera THEN "Fecha"
        ELSE CASE n = "description"  -> "Concepto"
               [] n = "debitAmount"  -> "Debito"
               [] n = "creditAmount" -> "Credito"
               [] n = "balance"      -> "Saldo"
               [] n = "bankId"       -> "Banco"
               [] OTHER              -> n

\* C10: for every non-empty raw record list, whatever its field names, the
\* renaming step neither fails nor loses data: the first date column becomes
\* Fecha, the known provider fields get their canonical names, every other
\* column keeps its name, the number of columns is unchanged and the
\* resulting names are pairwise distinct.
C10_Renombrado ==
    (Normalizado /\ movs # <<>>) =>
        LET f == json_normalize(movs)
        IN  /\ renamed.ok /\ FechaStep(renamed).ok
            /\ Len(renamed.cols) = Len(f.cols)
            /\ renamed.rows = f.rows
            /\ \A c \in 1..Len(f.cols) : renamed.cols[c] = NombreEsperado(f, c)
            /\ \A a, b \in 1..Len(renamed.cols) :
                   a # b => renamed.cols[a] # renamed.cols[b]

\* C3: normalising twice is idempotent: estandarizar applied to the
\* re-flattened output of estandarizar completes without error and returns
\* the same frame (same column names, same rows), also when the raw records
\* carry more than one field whose name contains "date".
C3_Idempotente == nphase = "renormalized" => (df2.ok /\ df2 = df)

(***************************************************************************)
(* Properties of the run (under Spec).                                     *)
(***************************************************************************)
Posts == {n \in 1..Len(events) : events[n].kind = "post"}
Gets  == {n \in 1..Len(events) : events[n].kind = "get"}

\* the entity name of account k of the list
NombreDe(k) == IF hasEntidad THEN bancos[k].Entidad ELSE bancos[k].bank_number

\* the statement request of account k returned an empty list
FetchVacio(k) ==
    \E n \in Gets : events[n].k = k /\ events[n].res = "vacio"

\* C4: after the account loop no entity name is both the name of a
\* spreadsheet that was written and a member of sin_mov.
C4_Disjuntos ==
    pc \in {"log", "done"} =>
        \A a, b \in 1..Len(events) :
            (events[a].kind = "xlsx" /\ events[b].kind = "sin_mov")
                => events[a].res # events[b].res

C6_AbortaSinExito ==
    \A n \in 1..Len(events) :
        (events[n].kind \in {"post", "get"} /\ events[n].status \notin 200..299)
            => (n = Len(events) /\ pc = "raised")

\* what holds of the code: a 4xx or 5xx status aborts the run at that point,
\* and the spreadsheets of the earlier accounts stay on disk
AbortaEnError ==
    /\ \A n \in 1..Len(events) :
          (events[n].kind \in {"post", "get"} /\ events[n].status \in 400..599)
              => (n = Len(events) /\ pc = "raised" /\ ~log_written)
    /\ \A n \in 1..Len(events) : events[n].kind = "xlsx" =>
          \E f \in files : f.name = events[n].res

\* C7: one token request, before every statement request; the statement
\* requests go through the accounts in the order of the list, one each; the
\* spreadsheet or the sin_mov record of account k comes before the request of
\* account k + 1.
C7_Secuencial ==
    /\ Cardinality(Posts) <= 1
    /\ (Gets # {} \/ pc \in {"fetch", "process", "log", "done"})
           => Cardinality(Posts) = 1
    /\ \A g \in Gets : \E p \in Posts : p < g
    /\ \A g \in Gets :
          /\ events[g].k = Cardinality({h \in Gets : h <= g})
          /\ events[g].k <= Len(bancos)
    /\ pc = "done" => Cardinality(Gets) = Len(bancos)
    /\ \A g \in Gets : events[g].k > 1 =>
          \E h \in Gets, w \in 1..Len(events) :
              /\ h < w /\ w < g
              /\ events[h].k = events[g].k - 1
              /\ events[w].kind \in {"xlsx", "sin_mov"}
              /\ events[w].k = events[g].k - 1

\* a finished run over two accounts, both fetched
C7_Witness == pc = "done" /\ Len(bancos) = 2 /\ Cardinality(Gets) = 2

AlgunoFalta ==
    \E v \in {CLIENT_ID, CLIENT_SECRET, CUSTOMER_ID} : v = "unset" \/ v = "empty"

\* C8 as stated: with a required setting missing the program exits with a
\* non-zero status before any network call and before any file or directory
\* is read or created; with the three present start-up does not abort.
C8_Original ==
    /\ (AlgunoFalta /\ pc \notin {"start", "check"})
           => (pc = "exit" /\ exit_status = "1" /\ events = <<>>)
    /\ ~AlgunoFalta => pc # "exit"

\* C8 as amended: with a required setting missing the program exits with a
\* non-zero status before any network call, before the account list is read
\* and before any file or directory is created, the .env file being the only
\* file read; with the three present start-up does not abort.
C8_SinCredenciales ==
    /\ (AlgunoFalta /\ pc \notin {"start", "check"})
           => /\ pc = "exit" /\ exit_status = "1"
              /\ \A n \in 1..Len(events) : events[n] = Event("read", 0, 0, ".env")
    /\ ~AlgunoFalta => pc # "exit"

\* the exit on an empty customer id, the other two settings present
C8_Witness ==
    /\ pc = "exit" /\ exit_status = "1"
    /\ CLIENT_ID = "set" /\ CLIENT_SECRET = "set" /\ CUSTOMER_ID = "empty"

====
